---- MODULE Spec2Model ----
(***************************************************************************)
(* Authentication and session lifecycle of the todofordevs CLI:            *)
(* the persisted session store, the session guard predicates, the device   *)
(* login flow with its polling loop, the axios request interceptor and the *)
(* command handlers that sit on top of them.                               *)
(*                                                                         *)
(* Times are milliseconds, as Date.now() gives them, counted from an       *)
(* origin chosen so that the values fit the model checker's integers.      *)
(***************************************************************************)
EXTENDS Integers, Sequences, FiniteSets, TLC

VARIABLES
  store,   \* the persisted record (conf file): auth and activeProject
  now,     \* Date.now()
  cmd,     \* the command of the current (or last) invocation of the CLI
  pc,      \* where that command's handler stands
  flow,    \* the device login flow of this invocation (initiateLogin, pollForToken)
  rq,      \* the API request of the handler that is passing the interceptor or is on the wire
  obs,     \* what the current invocation has done so far (history)
  runs     \* invocations of the CLI so far

vars == <<store, now, cmd, pc, flow, rq, obs, runs>>

\* ------------------------------------------------------------------ bounds
\* The clock value at the first invocation.
StartTime == 100000000
\* The number of invocations of the CLI in one behaviour.
MaxInvocations == 2

\* --------------------------------------------------------- program constants
FiveMinutes == 5 * 60 * 1000
OneHour == 60 * 60 * 1000
TokenLifetime == 24 * 60 * 60 * 1000

\* An absent (undefined) value of each optional field of the persisted record.
NoToken == "<undefined>"
NoUser == "<no user>"
NoProject == "<no project>"
NoTime == -1

\* The empty string is a string the schema accepts and JavaScript treats as false.
EmptyToken == ""
Tokens == {"T1", "T2"}
Users == {"u1", "u2"}
\* What the server returns with a grant's token: the token, and the identity,
\* which may be missing.
ServerTokens == {"T2"}
ServerUsers == {"u2", NoUser}
Projects == {"p1", "p2"}

\* ------------------------------------------------------------ session store
\* CliConfig: activeProject? and auth? {token, expiresAt?, user?}. An auth
\* object none of whose fields is set reads like an absent one.
EmptyStore ==
  [token |-> NoToken, expiresAt |-> NoTime, user |-> NoUser, activeProject |-> NoProject]

getAuthToken(s) == s.token

getAuthUser(s) == s.user

getActiveProject(s) == s.activeProject

\* JavaScript truthiness of a token read from the store (!token is its negation).
Truthy(tok) == tok # NoToken /\ tok # EmptyToken

\* `expiresAt && typeof expiresAt === 'number'`: a number other than 0.
UsableExpiry(e) == e # NoTime /\ e # 0

setAuthTokenMergesUser(s, t, u, at) ==
  [s EXCEPT !.token = t, !.expiresAt = at + TokenLifetime,
            !.user = IF u = NoUser THEN s.user ELSE u]

setAuthTokenShortLife(s, t, u, at) ==
  [s EXCEPT !.token = t, !.expiresAt = at + OneHour, !.user = u]

\* config.set('auth', {token, expiresAt: Date.now() + 24h, user}): the whole auth
\* object is replaced; an undefined user is dropped when the record is written.
setAuthToken(s, t, u, at) ==
  [s EXCEPT !.token = t, !.expiresAt = at + TokenLifetime, !.user = u]

clearAuthTokenKeepsUser(s) ==
  [s EXCEPT !.token = NoToken, !.expiresAt = NoTime]

clearAuthTokenWipesStore(s) == EmptyStore

\* config.delete('auth')
clearAuthToken(s) ==
  [s EXCEPT !.token = NoToken, !.expiresAt = NoTime, !.user = NoUser]

setActiveProject(s, p) == [s EXCEPT !.activeProject = p]

clearActiveProject(s) == [s EXCEPT !.activeProject = NoProject]

\* ------------------------------------------------------------ session guard
isAuthenticatedStrict(s, t) ==
  /\ Truthy(getAuthToken(s))
  /\ s.expiresAt # NoTime
  /\ s.expiresAt - t > FiveMinutes

isAuthenticated(s, t) ==
  IF ~Truthy(getAuthToken(s)) THEN FALSE
  ELSE IF UsableExpiry(s.expiresAt) /\ s.expiresAt < t + FiveMinutes THEN FALSE
  ELSE TRUE

needsTokenRefreshInclusive(s, t) ==
  IF ~Truthy(getAuthToken(s)) THEN FALSE
  ELSE IF UsableExpiry(s.expiresAt) /\ s.expiresAt <= t + OneHour THEN TRUE
  ELSE FALSE

\* True when a token is stored that expires in less than an hour.
needsTokenRefresh(s, t) ==
  IF ~Truthy(getAuthToken(s)) THEN FALSE
  ELSE IF UsableExpiry(s.expiresAt) /\ s.expiresAt < t + OneHour THEN TRUE
  ELSE FALSE

\* ------------------------------------------------------------- endpoints
\* The URL of each request, as the segments of its path: /auth/cli-login-initiate
\* is <<"auth", "cli-login-initiate">>.
AuthLoginUrl == <<"auth", "cli-login-initiate">>

AuthTokenUrl(deviceCode) == <<"auth", "cli-token?code=" \o deviceCode>>

ProjectsUrl == <<"projects">>

ProjectTasksUrl(projectId) == <<"projects", projectId, "tasks">>

TaskUrl(taskId) == <<"tasks", taskId>>

\* The URL the handler asks for at each of its requests.
RequestUrl(label) ==
  CASE label \in {"reqTasks", "reqCreate"} -> ProjectTasksUrl("p1")
    [] label \in {"reqGet", "reqPut", "reqDel"} -> TaskUrl("t1")
    [] OTHER -> ProjectsUrl

isAuthEndpointNever(url) == FALSE

\* config.url?.includes('/auth/'): a segment "auth" with a segment after it.
isAuthEndpoint(url) == \E i \in 1..(Len(url) - 1) : url[i] = "auth"

\* The interceptor's decision to refresh before a request to url.
RefreshTriggered(url, s, t) ==
  /\ ~isAuthEndpoint(url)
  /\ needsTokenRefresh(s, t)
  /\ isAuthenticated(s, t)

\* --------------------------------------------------------- device login flow
\* The grants the server hands out: interval and expires_in, in seconds.
Grants == {[interval |-> 5, expiresIn |-> 10], [interval |-> 15, expiresIn |-> 10]}
DeviceCodes == {"D1"}

maxInterval == 30

\* The time a token request spends on the wire, in milliseconds.
Latencies == {0}

IdleFlow ==
  [st |-> "idle", silent |-> FALSE, caller |-> "none", deviceCode |-> "none",
   num |-> 0, den |-> 1, expiresIn |-> 0, expiresAt |-> 0, attempts |-> 0,
   timers |-> 0, timerLive |-> FALSE, grants |-> 0, failedSteps |-> {}, trace |-> <<>>,
   nested |-> 0,
   polls |-> 0, polledAt |-> 0, writes |-> 0, pollsAfterWrite |-> 0,
   got |-> [token |-> NoToken, user |-> NoUser],
   shown |-> {}, before |-> EmptyStore]

\* initiateLogin(silent) up to the await of the grant request, which passes the
\* interceptor like every request; nested counts the refreshes the flow's own
\* requests have set off.
NewFlow(caller, silent, s) ==
  [IdleFlow EXCEPT !.st = "grant", !.silent = silent, !.caller = caller, !.grants = 1,
                   !.nested = IF RefreshTriggered(AuthLoginUrl, s, now) THEN 1 ELSE 0,
                   !.shown = IF silent THEN {} ELSE {"info:initiating"},
                   !.before = s]

BackoffNumUncapped(f) == 3 * f.num

\* interval * backoffFactor, capped: Math.min(interval * 1.5, maxInterval), on the
\* fraction num/den (the values are dyadic, so the doubles are exact).
BackoffNum(f) == IF 3 * f.num > maxInterval * 2 * f.den THEN maxInterval ELSE 3 * f.num
BackoffDen(f) == IF 3 * f.num > maxInterval * 2 * f.den THEN 1 ELSE 2 * f.den

\* interval * 1000 milliseconds, rounded up to the clock's resolution.
SleepMs(f) == (f.num * 1000 + f.den - 1) \div f.den

\* setInterval(...) assigned to progressInterval.
StartTimer(f) ==
  [f EXCEPT !.timers = @ + 1, !.timerLive = TRUE, !.shown = @ \cup {"timer"}]

ClearTimerLeavesRunning(f) == f

\* if (progressInterval) { clearInterval(progressInterval); ... }
ClearTimer(f) ==
  IF f.timerLive THEN [f EXCEPT !.timers = @ - 1, !.timerLive = FALSE] ELSE f

Show(f, msgs) == [f EXCEPT !.shown = @ \cup msgs]

\* ------------------------------------------------- request interceptor (tail)
NoRequest == [st |-> "none", header |-> NoToken, viaRefresh |-> FALSE, before |-> EmptyStore]

HeaderForBeforeRefresh(s) ==
  IF Truthy(getAuthToken(rq.before)) THEN getAuthToken(rq.before) ELSE NoToken

\* const token = getAuthToken(); if (token && config.headers) Authorization = Bearer token
HeaderFor(s) == IF Truthy(getAuthToken(s)) THEN getAuthToken(s) ELSE NoToken

\* The messages of the interceptor after the refresh: the warning of the catch
\* block, and the error of the authentication check.
TailMessages(s, t, thrown) ==
  (IF thrown THEN {"warn:refresh-failed"} ELSE {})
    \cup (IF ~isAuthenticated(s, t) THEN {"error:auth-required"} ELSE {})

InterceptorTailDropsRequest(s, t, thrown) ==
  IF thrown
    THEN /\ pc' = "done"
         /\ rq' = [rq EXCEPT !.st = "none"]
         /\ obs' = [obs EXCEPT !.raised = TRUE]
    ELSE /\ pc' = pc
         /\ rq' = [rq EXCEPT !.st = "wire", !.header = HeaderFor(s)]
         /\ obs' = [obs EXCEPT !.requests = @ + 1,
                               !.msgs = @ \cup TailMessages(s, t, thrown)]

\* The interceptor from the end of `await auth.initiateLogin()` on: the catch
\* block swallows a thrown error, the token now in the store is attached, and
\* the request goes out. s and t are the store and the clock at that moment.
InterceptorTail(s, t, thrown) ==
  /\ pc' = pc
  /\ rq' = [rq EXCEPT !.st = "wire", !.header = HeaderFor(s)]
  /\ obs' = [obs EXCEPT !.requests = @ + 1,
                        !.msgs = @ \cup TailMessages(s, t, thrown)]

\* initiateLogin settles: with the login command as caller the handler ends (a
\* thrown error leaves it as a rejection), with the interceptor as caller the
\* interceptor goes on.
FlowEnd(f, s, t, st) ==
  /\ flow' = [f EXCEPT !.st = st]
  /\ store' = s
  /\ now' = t
  /\ UNCHANGED <<cmd, runs>>
  /\ IF f.caller = "command"
       THEN /\ pc' = "done"
            /\ rq' = rq
            /\ obs' = [obs EXCEPT !.raised = (st = "failed")]
       ELSE InterceptorTail(s, t, st = "failed")

\* ---------------------------------------------------------------- polling
LoopCheckInclusive(f, s, t) ==
  IF t <= f.expiresAt
    THEN /\ flow' = [f EXCEPT !.st = "sleep", !.attempts = @ + 1]
         /\ store' = s
         /\ now' = t
         /\ UNCHANGED <<cmd, pc, rq, obs, runs>>
    ELSE FlowEnd(
           Show(ClearTimer(f),
                IF f.silent THEN {} ELSE {"warn:timeout", "error:failed-or-timed-out"}),
           s, t, "timedout")

LoopCheckTimeoutClears(f, s, t) ==
  IF t < f.expiresAt
    THEN /\ flow' = [f EXCEPT !.st = "sleep", !.attempts = @ + 1]
         /\ store' = s
         /\ now' = t
         /\ UNCHANGED <<cmd, pc, rq, obs, runs>>
    ELSE FlowEnd(
           Show(ClearTimer(f),
                IF f.silent THEN {} ELSE {"warn:timeout", "error:failed-or-timed-out"}),
           clearAuthToken(s), t, "timedout")

\* The head of the while loop of pollForToken, then either the next iteration
\* up to its sleep, or the code after the loop and the rest of initiateLogin.
LoopCheck(f, s, t) ==
  IF t < f.expiresAt
    THEN /\ flow' = [f EXCEPT !.st = "sleep", !.attempts = @ + 1]
         /\ store' = s
         /\ now' = t
         /\ UNCHANGED <<cmd, pc, rq, obs, runs>>
    ELSE FlowEnd(
           Show(ClearTimer(f),
                IF f.silent THEN {} ELSE {"warn:timeout", "error:failed-or-timed-out"}),
           s, t, "timedout")

EnterPollingLongWindow(f) ==
  LET f1 == [f EXCEPT !.expiresAt = now + f.expiresIn * 10000]
      f2 == IF f.silent THEN f1 ELSE StartTimer(f1)
  IN LoopCheck(f2, store, now)

\* pollForToken up to the first loop test.
EnterPolling(f) ==
  LET f1 == [f EXCEPT !.expiresAt = now + f.expiresIn * 1000]
      f2 == IF f.silent THEN f1 ELSE StartTimer(f1)
  IN LoopCheck(f2, store, now)

\* post(endpoints.auth.login()) answers with a grant.
GrantOk(g, d) ==
  /\ flow.st = "grant"
  /\ LET f1 == [flow EXCEPT !.deviceCode = d, !.num = g.interval, !.den = 1,
                            !.expiresIn = g.expiresIn]
     IN IF flow.silent
          THEN EnterPolling(f1)
          ELSE /\ flow' = [Show(f1, {"display:url"}) EXCEPT !.st = "clipboard"]
               /\ UNCHANGED <<store, now, cmd, pc, rq, obs, runs>>

GrantFailedRetries ==
  /\ flow.st = "grant"
  /\ IF flow.grants < 2
       THEN /\ flow' = [Show(flow, {"error:api"}) EXCEPT !.grants = @ + 1]
            /\ UNCHANGED <<store, now, cmd, pc, rq, obs, runs>>
       ELSE FlowEnd(Show(flow, {"error:api"}
                           \cup (IF flow.silent THEN {} ELSE {"error:initiate-failed"})),
                    store, now, "failed")

\* post(endpoints.auth.login()) fails: handleApiError reports it, the catch block
\* of initiateLogin reports it again unless silent, and rethrows.
GrantFailed ==
  /\ flow.st = "grant"
  /\ FlowEnd(Show(flow, {"error:api"}
                    \cup (IF flow.silent THEN {} ELSE {"error:initiate-failed"})),
             store, now, "failed")

\* await clipboardy.write(user_code), which may reject; the code is displayed either way.
Clipboard(ok) ==
  /\ flow.st = "clipboard"
  /\ flow' = [Show(flow, {"clipboard:write", "display:code"}) EXCEPT
                !.st = "browser",
                !.failedSteps = IF ok THEN @ ELSE @ \cup {"clipboard"}]
  /\ UNCHANGED <<store, now, cmd, pc, rq, obs, runs>>

\* await open(verification_uri): a rejection lands in the catch block of initiateLogin.
Browser(ok) ==
  /\ flow.st = "browser"
  /\ LET f1 == [Show(flow, {"browser:open"}) EXCEPT
                  !.failedSteps = IF ok THEN @ ELSE @ \cup {"browser"}]
     IN IF ok
          THEN EnterPolling(Show(f1, {"info:waiting"}))
          ELSE FlowEnd(Show(f1, {"error:initiate-failed"}), store, now, "failed")

\* One iteration of the loop up to the answer to its request: the sleep of
\* `interval` seconds ends, the token request goes out with the device code and is
\* on the wire for lat milliseconds. The trace keeps, for each request, the
\* interval slept before it and the kind of answer it got.
Polled(f, out) ==
  [f EXCEPT !.polls = @ + 1,
            !.trace = Append(@, [out |-> out, num |-> f.num, den |-> f.den]),
            !.nested = @ + (IF RefreshTriggered(AuthTokenUrl(f.deviceCode), store,
                                                now + SleepMs(f))
                              THEN 1 ELSE 0),
            !.pollsAfterWrite = @ + (IF f.writes > 0 THEN 1 ELSE 0),
            !.polledAt = now + SleepMs(f)]

PollTokenReturnsBeforeWrite(t, u, lat) ==
  /\ flow.st = "sleep"
  /\ LET at == now + SleepMs(flow) + lat
         f1 == [ClearTimer(Polled(flow, "token")) EXCEPT !.writes = @ + 1,
                   !.got = IF flow.got.token = NoToken
                             THEN [token |-> t, user |-> u] ELSE @]
         f2 == IF flow.silent THEN f1
               ELSE Show(f1, {"success"} \cup (IF u # NoUser THEN {"info:logged-in-as"} ELSE {}))
     IN FlowEnd(f2, store, at, "succeeded")

PollTokenKeepsPolling(t, u, lat) ==
  /\ flow.st = "sleep"
  /\ LET at == now + SleepMs(flow) + lat
         f1 == [ClearTimer(Polled(flow, "token")) EXCEPT !.writes = @ + 1,
                   !.got = IF flow.got.token = NoToken
                             THEN [token |-> t, user |-> u] ELSE @]
     IN LoopCheck(f1, setAuthToken(store, t, u, at), at)

\* The response carries a token: the timer is cleared, the session is stored,
\* pollForToken returns true and initiateLogin reports success unless silent.
PollToken(t, u, lat) ==
  /\ flow.st = "sleep"
  /\ LET at == now + SleepMs(flow) + lat
         f1 == [ClearTimer(Polled(flow, "token")) EXCEPT !.writes = @ + 1,
                   !.got = IF flow.got.token = NoToken
                             THEN [token |-> t, user |-> u] ELSE @]
         f2 == IF flow.silent THEN f1
               ELSE Show(f1, {"success"} \cup (IF u # NoUser THEN {"info:logged-in-as"} ELSE {}))
     IN FlowEnd(f2, setAuthToken(store, t, u, at), at, "succeeded")

\* A 2xx response without a (non-empty) token: the loop goes on unchanged.
PollEmpty(lat) ==
  /\ flow.st = "sleep"
  /\ LoopCheck(Polled(flow, "empty"), store, now + SleepMs(flow) + lat)

PollPendingNoBackoff(lat) ==
  /\ flow.st = "sleep"
  /\ LoopCheck(Show(Polled(flow, "pending"), {"error:api:pending"}),
               store, now + SleepMs(flow) + lat)

\* 400 authorization_pending: get() has reported the error through
\* handleApiError; the interval backs off and the loop continues.
PollPending(lat) ==
  /\ flow.st = "sleep"
  /\ LoopCheck([Show(Polled(flow, "pending"), {"error:api:pending"}) EXCEPT
                  !.num = BackoffNum(flow), !.den = BackoffDen(flow)],
               store, now + SleepMs(flow) + lat)

PollErrorBacksOff(lat) ==
  /\ flow.st = "sleep"
  /\ LET f1 == Show(Polled(flow, "error"), {"error:api"})
         f2 == IF flow.silent THEN f1
               ELSE StartTimer(Show(ClearTimer(f1), {"warn:poll-error", "info:retrying"}))
     IN LoopCheck([f2 EXCEPT !.num = BackoffNum(flow), !.den = BackoffDen(flow)],
                  store, now + SleepMs(flow) + lat)

\* Any other error: reported by handleApiError, then, unless silent, the timer is
\* stopped, a warning is shown and the timer is started again.
PollError(lat) ==
  /\ flow.st = "sleep"
  /\ LET f1 == Show(Polled(flow, "error"), {"error:api"})
         f2 == IF flow.silent THEN f1
               ELSE StartTimer(Show(ClearTimer(f1), {"warn:poll-error", "info:retrying"}))
     IN LoopCheck(f2, store, now + SleepMs(flow) + lat)

\* ---------------------------------------------------------------- commands
AuthCommands ==
  {"listTasks", "addTask", "viewTask", "updateTask", "deleteTask",
   "listProjects", "selectProject", "showCurrentProject", "createProject"}

Prompts == {"selectNow", "pick", "details", "updates", "confirm"}

OneMinute == 60 * 1000

\* The instants at which the user comes back to the terminal.
InvocationTimes ==
  {StartTime + 23 * OneHour, StartTime + 23 * OneHour + OneMinute,
   StartTime + 23 * OneHour + 56 * OneMinute}

NoObs ==
  [authAtStart |-> FALSE, store0 |-> EmptyStore, requests |-> 0, logins |-> 0,
   prompts |-> 0, raised |-> FALSE, msgs |-> {}]

\* What a fresh process has done: nothing yet.
NewObs ==
  [authAtStart |-> isAuthenticated(store, now), store0 |-> store,
   requests |-> 0, logins |-> 0, prompts |-> 0, raised |-> FALSE, msgs |-> {}]

Say(o, m) == [o EXCEPT !.msgs = @ \cup m]

requireAuthAlways(s, t) == TRUE

\* requireAuth(): isAuthenticated(), with the instruction to log in when false.
requireAuth(s, t) == isAuthenticated(s, t)

\* `await auth.initiateLogin()` in the interceptor passes no argument, so the
\* parameter takes its default, silent = false.
InterceptorLoginSilent == FALSE

\* api.get/post/put/delete on a URL outside /auth/: the interceptor up to its
\* first await (the refresh), or, without a refresh, up to the request going out.
\* s is the store, o and f the history and the flow record to go on from.
StartRequest(label, s, o, f) ==
  /\ pc' = label
  /\ IF RefreshTriggered(RequestUrl(label), s, now)
       THEN /\ flow' = NewFlow("interceptor", InterceptorLoginSilent, s)
            /\ rq' = [st |-> "refresh", header |-> NoToken, viaRefresh |-> TRUE, before |-> s]
            /\ obs' = [Say(o, {"info:refreshing"}) EXCEPT !.logins = @ + 1]
       ELSE /\ flow' = f
            /\ rq' = [st |-> "wire", header |-> HeaderFor(s), viaRefresh |-> FALSE,
                      before |-> s]
            /\ obs' = [Say(o, TailMessages(s, now, FALSE)) EXCEPT !.requests = @ + 1]

\* The handler returns.
Return(o) ==
  /\ pc' = "done"
  /\ obs' = o

\* A new process runs command c.
Begin(c) ==
  /\ pc = "shell"
  /\ runs < MaxInvocations
  /\ cmd' = c
  /\ runs' = runs + 1

\* `if (!requireAuth()) return`
Denied ==
  /\ Return(Say(NewObs, {"error:auth-required"}))
  /\ flow' = IdleFlow
  /\ rq' = NoRequest
  /\ UNCHANGED <<store, now>>

\* todo auth login
InvokeLogin ==
  /\ Begin("login")
  /\ pc' = "flow"
  /\ flow' = NewFlow("command", FALSE, store)
  /\ rq' = NoRequest
  /\ obs' = [NewObs EXCEPT !.logins = 1]
  /\ UNCHANGED <<store, now>>

\* todo auth logout
InvokeLogout ==
  /\ Begin("logout")
  /\ store' = clearAuthToken(store)
  /\ Return(Say(NewObs, {"success:logged-out"}))
  /\ flow' = IdleFlow
  /\ rq' = NoRequest
  /\ UNCHANGED now

InvokeStatusByToken ==
  /\ Begin("status")
  /\ Return(Say(NewObs, IF Truthy(getAuthToken(store))
                          THEN {"success:logged-in"} ELSE {"info:not-logged-in"}))
  /\ flow' = IdleFlow
  /\ rq' = NoRequest
  /\ UNCHANGED <<store, now>>

\* todo auth status: checkStatus()
InvokeStatus ==
  /\ Begin("status")
  /\ Return(Say(NewObs, IF isAuthenticated(store, now)
                          THEN {"success:logged-in"} ELSE {"info:not-logged-in"}))
  /\ flow' = IdleFlow
  /\ rq' = NoRequest
  /\ UNCHANGED <<store, now>>

\* listTasks and addTask: requireAuth, then getActiveProjectId(options.project).
InvokeProjectTask(c, override) ==
  /\ c \in {"listTasks", "addTask"}
  /\ Begin(c)
  /\ IF ~requireAuth(store, now) THEN Denied
     ELSE /\ UNCHANGED <<store, now>>
          /\ IF override \/ getActiveProject(store) # NoProject
               THEN IF c = "listTasks"
                      THEN StartRequest("reqTasks", store, NewObs, IdleFlow)
                      ELSE /\ pc' = "details"
                           /\ obs' = [NewObs EXCEPT !.prompts = @ + 1]
                           /\ flow' = IdleFlow
                           /\ rq' = NoRequest
               ELSE /\ pc' = "selectNow"
                    /\ obs' = [Say(NewObs, {"info:no-active-project"}) EXCEPT !.prompts = @ + 1]
                    /\ flow' = IdleFlow
                    /\ rq' = NoRequest

\* viewTask, updateTask and deleteTask: requireAuth, then the task is fetched.
InvokeTask(c) ==
  /\ c \in {"viewTask", "updateTask", "deleteTask"}
  /\ Begin(c)
  /\ IF ~requireAuth(store, now) THEN Denied
     ELSE /\ UNCHANGED <<store, now>>
          /\ StartRequest("reqGet", store, NewObs, IdleFlow)

\* listProjects and selectProject: requireAuth, then the projects are fetched.
InvokeProjects(c) ==
  /\ c \in {"listProjects", "selectProject"}
  /\ Begin(c)
  /\ IF ~requireAuth(store, now) THEN Denied
     ELSE /\ UNCHANGED <<store, now>>
          /\ StartRequest("reqProjects", store, NewObs, IdleFlow)

\* showCurrentProject: requireAuth, then the active project is read and shown.
InvokeShowCurrent ==
  /\ Begin("showCurrentProject")
  /\ IF ~requireAuth(store, now) THEN Denied
     ELSE /\ Return(Say(NewObs, IF getActiveProject(store) # NoProject
                                  THEN {"success:current-project"}
                                  ELSE {"info:no-active-project"}))
          /\ flow' = IdleFlow
          /\ rq' = NoRequest
          /\ UNCHANGED <<store, now>>

\* createProject(name): requireAuth, the name is checked, then the project is
\* posted. endpoints.projects has no create member in utils/api.ts, so the call
\* that builds the URL may throw into the catch block before any request.
InvokeCreateProject(emptyName, helperPresent) ==
  /\ Begin("createProject")
  /\ IF ~requireAuth(store, now) THEN Denied
     ELSE /\ UNCHANGED <<store, now>>
          /\ IF emptyName \/ ~helperPresent
               THEN /\ Return(Say(NewObs, {"error:create-project"}))
                    /\ flow' = IdleFlow
                    /\ rq' = NoRequest
               ELSE StartRequest("reqCreateProject", store, NewObs, IdleFlow)

\* The request on the wire is answered. nonEmpty: a project list with entries.
\* The login flow of its refresh, long returned, is forgotten here.
Response(ok, nonEmpty) ==
  /\ rq.st = "wire"
  /\ rq' = [rq EXCEPT !.st = "answered"]
  /\ flow' = IdleFlow
  /\ UNCHANGED <<store, now, cmd, runs>>
  /\ LET failed == Say(obs, IF ok THEN {} ELSE {"error:api"})
     IN CASE pc = "reqProjects" /\ cmd # "listProjects" /\ ok /\ nonEmpty ->
               /\ pc' = "pick"
               /\ obs' = [obs EXCEPT !.prompts = @ + 1]
          [] pc = "reqGet" /\ cmd = "updateTask" /\ ok ->
               /\ pc' = "updates"
               /\ obs' = [obs EXCEPT !.prompts = @ + 1]
          [] pc = "reqGet" /\ cmd = "deleteTask" ->
               /\ pc' = "confirm"
               /\ obs' = [failed EXCEPT !.prompts = @ + 1]
          [] OTHER -> Return(failed)

\* "Would you like to select a project now?": on yes selectProject() runs, which
\* asks requireAuth() again before it fetches the projects.
AnswerSelectNow(yes) ==
  /\ pc = "selectNow"
  /\ UNCHANGED <<store, now, cmd, runs>>
  /\ IF ~yes
       THEN Return(Say(obs, {"error:no-project"})) /\ UNCHANGED <<flow, rq>>
       ELSE IF ~requireAuth(store, now)
              THEN /\ Return(Say(obs, {"error:auth-required", "error:no-project"}))
                   /\ UNCHANGED <<flow, rq>>
              ELSE StartRequest("reqProjects", store, obs, flow)

\* "Select a project to set as active": setActiveProject, then the caller goes on.
AnswerPick(p) ==
  /\ pc = "pick"
  /\ store' = setActiveProject(store, p)
  /\ UNCHANGED <<now, cmd, runs>>
  /\ CASE cmd = "listTasks" -> StartRequest("reqTasks", store', obs, flow)
       [] cmd = "addTask" ->
            /\ pc' = "details"
            /\ obs' = [obs EXCEPT !.prompts = @ + 1]
            /\ UNCHANGED <<flow, rq>>
       [] OTHER -> Return(Say(obs, {"success:project-active"})) /\ UNCHANGED <<flow, rq>>

\* The task details, the task updates, or the confirmation of a deletion: on an
\* answer the handler sends its request, otherwise (cancelled, declined) it returns.
AnswerProceed(yes) ==
  /\ pc \in {"details", "updates", "confirm"}
  /\ UNCHANGED <<store, now, cmd, runs>>
  /\ IF yes
       THEN StartRequest(CASE pc = "details" -> "reqCreate"
                           [] pc = "updates" -> "reqPut"
                           [] OTHER -> "reqDel",
                         store, obs, flow)
       ELSE Return(Say(obs, {"info:cancelled"})) /\ UNCHANGED <<flow, rq>>

\* The process ends, and with it everything but the persisted record.
Exit ==
  /\ pc = "done"
  /\ pc' = "shell"
  /\ cmd' = "none"
  /\ flow' = IdleFlow
  /\ rq' = NoRequest
  /\ obs' = NoObs
  /\ UNCHANGED <<store, now, runs>>

\* Time passes between invocations, and while a prompt waits for the user.
Tick ==
  /\ pc \in {"shell"} \cup Prompts
  /\ \E t \in InvocationTimes : t > now /\ now' = t
  /\ UNCHANGED <<store, cmd, pc, flow, rq, obs, runs>>

\* ------------------------------------------------------- config subcommands
\* The arguments of `config set <key> <value>` after the value is parsed: a
\* number, a string that is no number, or a JSON object.
ConfigSetInputs ==
  {[key |-> "auth.token", kind |-> "string", token |-> "T2", n |-> 0],
   [key |-> "auth.expiresAt", kind |-> "number", token |-> NoToken, n |-> 0],
   [key |-> "auth.expiresAt", kind |-> "number", token |-> NoToken,
    n |-> StartTime + 24 * OneHour],
   [key |-> "auth.expiresAt", kind |-> "string", token |-> NoToken, n |-> 0],
   [key |-> "auth", kind |-> "object", token |-> "T2", n |-> 0],
   [key |-> "auth", kind |-> "object", token |-> EmptyToken, n |-> 0],
   [key |-> "auth.user", kind |-> "object", token |-> NoToken, n |-> 0],
   [key |-> "activeProject", kind |-> "object", token |-> NoToken, n |-> 0]}

ConfigKeys == {"auth.token", "auth.expiresAt", "auth.user", "auth", "activeProject"}

\* configStore.set(key, parsedValue) under the schema of the store: a value of
\* the wrong type is a schema violation, which throws and leaves the file as it
\* was. An object given for auth is taken with the token alone, for auth.user
\* and activeProject it names user u2 and project p2.
ConfSet(s, in) ==
  CASE in.key = "auth.expiresAt" /\ in.kind = "number" -> [s EXCEPT !.expiresAt = in.n]
    [] in.key = "auth" /\ in.kind = "object" ->
         [s EXCEPT !.token = in.token, !.expiresAt = NoTime, !.user = NoUser]
    [] in.key = "auth.user" /\ in.kind = "object" -> [s EXCEPT !.user = "u2"]
    [] in.key = "activeProject" /\ in.kind = "object" -> [s EXCEPT !.activeProject = "p2"]
    [] OTHER -> s

\* config set <key> <value>
InvokeConfigSet(in) ==
  /\ Begin("configSet")
  /\ IF in.key = "auth.token"
       THEN /\ store' = store
            /\ Return(Say(NewObs, {"error:cannot-set-token"}))
       ELSE /\ store' = ConfSet(store, in)
            /\ Return(Say(NewObs, IF in.kind = "string" THEN {"error:config-set"}
                                                        ELSE {"success:config-set"}))
  /\ flow' = IdleFlow
  /\ rq' = NoRequest
  /\ UNCHANGED now

\* configStore.has(key)
ConfHas(s, key) ==
  CASE key = "auth.token" -> s.token # NoToken
    [] key = "auth.expiresAt" -> s.expiresAt # NoTime
    [] key = "auth.user" -> s.user # NoUser
    [] key = "auth" -> s.token # NoToken \/ s.expiresAt # NoTime \/ s.user # NoUser
    [] OTHER -> s.activeProject # NoProject

\* config delete <key>: keys that start with "auth" are refused.
InvokeConfigDelete(key) ==
  /\ Begin("configDelete")
  /\ IF key \in {"auth.token", "auth.expiresAt", "auth.user", "auth"}
       THEN /\ store' = store
            /\ Return(Say(NewObs, {"error:cannot-delete-auth"}))
       ELSE IF ~ConfHas(store, key)
              THEN /\ store' = store
                   /\ Return(Say(NewObs, {"info:key-not-found"}))
              ELSE /\ store' = clearActiveProject(store)
                   /\ Return(Say(NewObs, {"success:config-deleted"}))
  /\ flow' = IdleFlow
  /\ rq' = NoRequest
  /\ UNCHANGED now

\* config get <key>: the value is printed as JSON, except for the key auth.token.
InvokeConfigGet(key) ==
  /\ Begin("configGet")
  /\ Return(Say(NewObs,
       IF key = "auth.token" THEN {"error:cannot-display-token"}
       ELSE IF ~ConfHas(store, key) THEN {"info:key-not-found"}
       ELSE IF key = "auth" /\ store.token # NoToken THEN {"print:value", "print:token"}
       ELSE {"print:value"}))
  /\ flow' = IdleFlow
  /\ rq' = NoRequest
  /\ UNCHANGED <<store, now>>

\* config list: the whole record is printed, a truthy token replaced by [REDACTED].
InvokeConfigList ==
  /\ Begin("configList")
  /\ Return(Say(NewObs, IF store.token = EmptyToken
                          THEN {"print:value", "print:token"} ELSE {"print:value"}))
  /\ flow' = IdleFlow
  /\ rq' = NoRequest
  /\ UNCHANGED <<store, now>>

\* ----------------------------------------------------------- specification
\* A fresh installation, or a session stored by an earlier login.
InitialStores == {EmptyStore, setAuthToken(EmptyStore, "T1", "u1", StartTime)}

Init ==
  /\ store \in InitialStores
  /\ now = StartTime
  /\ cmd = "none"
  /\ pc = "shell"
  /\ flow = IdleFlow
  /\ rq = NoRequest
  /\ obs = NoObs
  /\ runs = 0

Invoke ==
  \/ InvokeLogin
  \/ InvokeLogout
  \/ InvokeStatus
  \/ \E c \in {"listTasks", "addTask"}, override \in BOOLEAN : InvokeProjectTask(c, override)
  \/ \E c \in {"viewTask", "updateTask", "deleteTask"} : InvokeTask(c)
  \/ \E c \in {"listProjects", "selectProject"} : InvokeProjects(c)
  \/ InvokeShowCurrent
  \/ \E emptyName \in BOOLEAN, helperPresent \in BOOLEAN :
       InvokeCreateProject(emptyName, helperPresent)
  \/ \E in \in ConfigSetInputs : InvokeConfigSet(in)
  \/ \E key \in ConfigKeys : InvokeConfigDelete(key)
  \/ \E key \in ConfigKeys : InvokeConfigGet(key)
  \/ InvokeConfigList

Login ==
  \/ \E g \in Grants, d \in DeviceCodes : GrantOk(g, d)
  \/ GrantFailed
  \/ \E ok \in BOOLEAN : Clipboard(ok)
  \/ \E ok \in BOOLEAN : Browser(ok)
  \/ \E t \in ServerTokens, u \in ServerUsers, lat \in Latencies : PollToken(t, u, lat)
  \/ \E lat \in Latencies : PollEmpty(lat)
  \/ \E lat \in Latencies : PollPending(lat)
  \/ \E lat \in Latencies : PollError(lat)

Handler ==
  \/ \E ok \in BOOLEAN, nonEmpty \in BOOLEAN : Response(ok, nonEmpty)
  \/ \E yes \in BOOLEAN : AnswerSelectNow(yes)
  \/ \E p \in Projects : AnswerPick(p)
  \/ \E yes \in BOOLEAN : AnswerProceed(yes)

Next == Invoke \/ Login \/ Handler \/ Exit \/ Tick

Spec == Init /\ [][Next]_vars

\* ------------------------------------------- the store and the guard alone
\* Every content the schema of the store admits (config set auth <json> writes
\* any of them), with expiry times on both sides of the guard's two margins.
StoreExpiries ==
  {NoTime, 0,
   StartTime + FiveMinutes - 1, StartTime + FiveMinutes, StartTime + FiveMinutes + 1,
   StartTime + OneHour - 1, StartTime + OneHour, StartTime + OneHour + 1,
   StartTime + TokenLifetime}

StoreContents ==
  [token : {NoToken, EmptyToken} \cup Tokens, expiresAt : StoreExpiries,
   user : {NoUser} \cup Users, activeProject : {NoProject} \cup Projects]

StoreTimes ==
  {StartTime + 1, StartTime + 23 * OneHour, StartTime + 23 * OneHour + 55 * OneMinute}

\* The last call made on the store: its arguments, its result, the store and the
\* clock it found, and how many times in a row it has been made.
NoCall ==
  [result |-> FALSE, prev |-> FALSE, before |-> EmptyStore, at |-> 0,
   token |-> NoToken, user |-> NoUser, project |-> NoProject, calls |-> 0,
   raised |-> FALSE]

Call(op) ==
  [NoCall EXCEPT !.before = store, !.at = now,
                 !.calls = IF cmd = op /\ obs.calls < 2 THEN obs.calls + 1
                           ELSE IF cmd = op THEN obs.calls ELSE 1,
                 !.prev = IF cmd = op THEN obs.result ELSE FALSE]

InitStore ==
  /\ store \in StoreContents
  /\ now = StartTime
  /\ cmd = "none"
  /\ pc = "store"
  /\ flow = IdleFlow
  /\ rq = NoRequest
  /\ obs = NoCall
  /\ runs = 0

CallSetAuthToken(t, u) ==
  /\ cmd' = "setAuthToken"
  /\ store' = setAuthToken(store, t, u, now)
  /\ obs' = [Call("setAuthToken") EXCEPT !.token = t, !.user = u]
  /\ UNCHANGED <<now, pc, flow, rq, runs>>

\* logout(): clearAuthToken() and the message of success.
CallLogout ==
  /\ cmd' = "logout"
  /\ store' = clearAuthToken(store)
  /\ obs' = Call("logout")
  /\ UNCHANGED <<now, pc, flow, rq, runs>>

CallSetActiveProject(p) ==
  /\ cmd' = "setActiveProject"
  /\ store' = setActiveProject(store, p)
  /\ obs' = [Call("setActiveProject") EXCEPT !.project = p]
  /\ UNCHANGED <<now, pc, flow, rq, runs>>

CallIsAuthenticated ==
  /\ cmd' = "isAuthenticated"
  /\ obs' = [Call("isAuthenticated") EXCEPT !.result = isAuthenticated(store, now)]
  /\ UNCHANGED <<store, now, pc, flow, rq, runs>>

CallNeedsTokenRefresh ==
  /\ cmd' = "needsTokenRefresh"
  /\ obs' = [Call("needsTokenRefresh") EXCEPT !.result = needsTokenRefresh(store, now)]
  /\ UNCHANGED <<store, now, pc, flow, rq, runs>>

StoreTick ==
  /\ \E t \in StoreTimes : t > now /\ now' = t
  /\ cmd' = "none"
  /\ obs' = NoCall
  /\ UNCHANGED <<store, pc, flow, rq, runs>>

NextStore ==
  \/ \E t \in Tokens, u \in Users \cup {NoUser} : CallSetAuthToken(t, u)
  \/ CallLogout
  \/ \E p \in Projects : CallSetActiveProject(p)
  \/ CallIsAuthenticated
  \/ CallNeedsTokenRefresh
  \/ StoreTick

SpecStore == InitStore /\ [][NextStore]_vars

\* ------------------------------------------------- the login flow alone
\* initiateLogin(silent) called on its own, with either value of its parameter,
\* against grants whose windows leave room for several polls, and one whose
\* interval is longer than its window.
PollGrants ==
  {[interval |-> 5, expiresIn |-> 30], [interval |-> 15, expiresIn |-> 10],
   [interval |-> 20, expiresIn |-> 60]}

InitPoll ==
  /\ store \in InitialStores
  /\ now = StartTime
  /\ cmd = "initiateLogin"
  /\ pc = "flow"
  /\ \E silent \in BOOLEAN : flow = NewFlow("command", silent, store)
  /\ rq = NoRequest
  /\ obs = [NoObs EXCEPT !.store0 = store, !.logins = 1]
  /\ runs = 0

NextPoll ==
  \/ \E g \in PollGrants, d \in DeviceCodes : GrantOk(g, d)
  \/ GrantFailed
  \/ \E ok \in BOOLEAN : Clipboard(ok)
  \/ \E ok \in BOOLEAN : Browser(ok)
  \/ \E t \in ServerTokens, u \in ServerUsers, lat \in Latencies : PollToken(t, u, lat)
  \/ \E lat \in Latencies : PollEmpty(lat)
  \/ \E lat \in Latencies : PollPending(lat)
  \/ \E lat \in Latencies : PollError(lat)

SpecPoll == InitPoll /\ [][NextPoll]_vars

\* Every sleep ends and every request is answered.
SpecPollLive == SpecPoll /\ WF_vars(NextPoll)

\* ------------------------------------------------------------------ claims
AuthOf(s) == [token |-> s.token, expiresAt |-> s.expiresAt, user |-> s.user]

Announcements == {"display:url", "display:code", "clipboard:write", "browser:open", "timer"}

\* C1: in a login attempt the first poll answered with a token stores the
\* session with that token and the returned user, and no token request follows
\* it: at most one session write per attempt, after the attempt's last poll.
C1_TokenStoredOnceThenNoPoll ==
  /\ flow.writes <= 1
  /\ flow.pollsAfterWrite = 0
  /\ flow.writes = 1 <=> flow.got.token # NoToken
  /\ flow.got.token # NoToken =>
       /\ flow.st = "succeeded"
       /\ getAuthToken(store) = flow.got.token
       /\ getAuthUser(store) = flow.got.user

\* A login attempt whose second poll was the first to be answered with a token.
C1_Witness ==
  /\ flow.st = "succeeded"
  /\ flow.polls = 2
  /\ flow.writes = 1
  /\ getAuthToken(store) = "T2"

\* C2: the login flow the interceptor starts as a refresh is silent: it shows no
\* verification URL or user code, tries neither the clipboard nor the browser,
\* and starts no progress timer.
C2_RefreshIsSilent ==
  flow.caller = "interceptor" =>
    /\ flow.silent
    /\ flow.shown \cap Announcements = {}
    /\ flow.timers = 0

\* C3: when the refresh started by the interceptor fails (the grant request
\* errors, or polling times out), the request is sent all the same, with the
\* token stored before the refresh, and the stored session is as it was.
C3_FailedRefreshSendsRequestUnchanged ==
  (rq.viaRefresh /\ flow.st \in {"failed", "timedout"}) =>
    /\ rq.st = "wire"
    /\ rq.header = getAuthToken(rq.before)
    /\ AuthOf(store) = AuthOf(rq.before)

\* A request on the wire after its refresh timed out with polls made.
C3_Witness ==
  /\ rq.viaRefresh
  /\ rq.st = "wire"
  /\ flow.st = "timedout"
  /\ flow.polls >= 1
  /\ rq.header = "T1"

C5_RefreshWithinTheHour ==
  cmd = "needsTokenRefresh" =>
    /\ (/\ Truthy(getAuthToken(store))
        /\ store.expiresAt # NoTime
        /\ store.expiresAt - now < OneHour) => obs.result
    /\ getAuthToken(store) = NoToken => ~obs.result
    /\ obs.calls >= 2 => obs.result = obs.prev
    /\ store = obs.before

\* C6: in the persisted store token and expiresAt are both present or both absent.
C6_TokenAndExpiryTogether ==
  (getAuthToken(store) = NoToken) <=> (store.expiresAt = NoTime)

\* C7: right after setAuthToken(t, u), getAuthToken() is t, expiresAt is the time
\* of the call plus 24 hours, and isAuthenticated() is true.
C7_StoreThenRead ==
  cmd = "setAuthToken" =>
    /\ getAuthToken(store) = obs.token
    /\ store.expiresAt = obs.at + 24 * 60 * 60 * 1000
    /\ isAuthenticated(store, now)

\* A session stored over an earlier one that had another token.
C7_Witness ==
  /\ cmd = "setAuthToken"
  /\ Truthy(getAuthToken(obs.before))
  /\ getAuthToken(obs.before) # obs.token
  /\ now > StartTime

\* C8: setAuthToken(t, u) replaces the whole session: the stored user is u, absent
\* when u is omitted, and nothing of the session before it is left.
C8_WholeSessionReplaced ==
  cmd = "setAuthToken" =>
    /\ getAuthUser(store) = obs.user
    /\ AuthOf(store) = [token |-> obs.token, expiresAt |-> obs.at + TokenLifetime,
                        user |-> obs.user]

\* A session stored without a user over one that had a user.
C8_Witness ==
  /\ cmd = "setAuthToken"
  /\ obs.user = NoUser
  /\ getAuthUser(obs.before) # NoUser
  /\ getAuthUser(store) = NoUser

\* C9: logout() leaves token, expiresAt and user absent from any store and
\* raises nothing; a second logout changes nothing; afterwards isAuthenticated()
\* and needsTokenRefresh() are false.
C9_LogoutClearsAndRepeats ==
  cmd = "logout" =>
    /\ AuthOf(store) = AuthOf(EmptyStore)
    /\ ~obs.raised
    /\ obs.calls >= 2 => store = obs.before
    /\ clearAuthToken(store) = store
    /\ ~isAuthenticated(store, now)
    /\ ~needsTokenRefresh(store, now)

\* A second logout in a row, after one that cleared a full session.
C9_Witness ==
  /\ cmd = "logout"
  /\ obs.calls = 2
  /\ AuthOf(store) = AuthOf(EmptyStore)

\* C10: an authenticated command invoked while isAuthenticated() is false sends
\* no API request, starts no login flow, shows no prompt and leaves the
\* persisted store as it was: it has returned.
C10_UnauthenticatedCommandDoesNothing ==
  (cmd \in AuthCommands /\ ~obs.authAtStart) =>
    /\ pc = "done"
    /\ obs.requests = 0
    /\ obs.logins = 0
    /\ obs.prompts = 0
    /\ flow = IdleFlow
    /\ rq = NoRequest
    /\ store = obs.store0

\* addTask refused with a stored token that has passed its margin.
C10_Witness ==
  /\ cmd = "addTask"
  /\ ~obs.authAtStart
  /\ Truthy(getAuthToken(store))
  /\ pc = "done"

\* The answers to the token requests of the attempt, in order, and the
\* intervals slept before them, as fractions of a second.
Outcomes(f) == [i \in 1..Len(f.trace) |-> f.trace[i].out]

IntervalsUsed(f) == [i \in 1..Len(f.trace) |-> <<f.trace[i].num, f.trace[i].den>>]

\* C11: when the polling loop ends because now >= expiresAt with no poll answered
\* by a token, the flow is timed out and the persisted session is what it was
\* before the attempt; the loop goes on only while now < expiresAt.
C11_TimeoutKeepsSession ==
  /\ flow.st = "timedout" =>
       /\ now >= flow.expiresAt
       /\ flow.writes = 0
       /\ AuthOf(store) = AuthOf(flow.before)
  /\ flow.st = "sleep" => now < flow.expiresAt
  /\ (flow.expiresAt > 0 /\ flow.writes = 0 /\ now >= flow.expiresAt) =>
       flow.st = "timedout"

\* A login command that timed out after a poll, over an earlier session.
C11_Witness ==
  /\ flow.st = "timedout"
  /\ flow.caller = "command"
  /\ flow.polls >= 1
  /\ getAuthToken(flow.before) = "T1"
  /\ getAuthToken(store) = "T1"

\* C12: when the grant request fails the attempt is failed at once: one grant
\* request, no token request, no announce step, polling never entered, and the
\* persisted session as it was.
C12_GrantFailureEndsAttempt ==
  (flow.st = "failed" /\ flow.deviceCode = "none") =>
    /\ flow.grants = 1
    /\ flow.polls = 0
    /\ flow.trace = <<>>
    /\ flow.expiresAt = 0
    /\ flow.shown \cap Announcements = {}
    /\ AuthOf(store) = AuthOf(flow.before)

\* A login command whose grant request failed, with an earlier session stored.
C12_Witness ==
  /\ flow.st = "failed"
  /\ flow.deviceCode = "none"
  /\ flow.caller = "command"
  /\ "error:api" \in flow.shown
  /\ getAuthToken(store) = "T1"

\* C13: a poll that fails with an error other than authorization-pending leaves
\* the interval as it was (the next poll is made after the same interval), does
\* not end the attempt (the loop goes to its test of the window), and a token
\* returned by a later poll is stored.
C13_PollErrorKeepsPolling ==
  /\ \A i \in 1..Len(flow.trace) :
       flow.trace[i].out = "error" =>
         IF i < Len(flow.trace)
           THEN /\ flow.trace[i + 1].num = flow.trace[i].num
                /\ flow.trace[i + 1].den = flow.trace[i].den
           ELSE /\ flow.num = flow.trace[i].num
                /\ flow.den = flow.trace[i].den
                /\ flow.st \in {"sleep", "timedout"}
                /\ flow.st = "sleep" <=> now < flow.expiresAt
  /\ \A i \in 1..Len(flow.trace) :
       (flow.trace[i].out = "error" /\ flow.trace[Len(flow.trace)].out = "token") =>
         /\ flow.st = "succeeded"
         /\ flow.writes = 1
         /\ getAuthToken(store) = flow.got.token

\* Pending, then an error, then a token inside the window: the third poll came
\* 7.5 seconds after the second, as the second came after the first.
C13_Witness ==
  /\ Outcomes(flow) = <<"pending", "error", "token">>
  /\ IntervalsUsed(flow) = <<<<5, 1>>, <<15, 2>>, <<15, 2>>>>
  /\ flow.polledAt < flow.expiresAt
  /\ flow.st = "succeeded"
  /\ getAuthToken(store) = "T2"

\* C14: in interactive mode every failure of the login command (grant request,
\* announce, timeout) ends with a message and a normal completion of
\* initiateLogin: nothing is thrown to the handler of `auth login`.
C14_InteractiveFailureReturns ==
  (cmd = "login" /\ flow.st \in {"failed", "timedout"}) =>
    /\ flow.shown \cap {"error:initiate-failed", "error:failed-or-timed-out"} # {}
    /\ ~obs.raised

\* C15: in silent mode every failed attempt, grant failure and timeout alike, is
\* thrown to the caller of initiateLogin; in non-silent mode a timeout is not.
C15_SilentFailureIsThrown ==
  /\ (flow.silent /\ flow.st \in {"failed", "timedout"}) => obs.raised
  /\ (~flow.silent /\ flow.st = "timedout") => ~obs.raised

\* C16: in interactive mode a failure to copy the code or to open the browser
\* leaves the flow as it was: polling starts with the device code and the
\* interval of the grant.
C16_AnnounceFailureIsHarmless ==
  (~flow.silent /\ flow.failedSteps # {} /\ flow.st # "browser") =>
    /\ flow.st \in {"sleep", "succeeded", "timedout"}
    /\ flow.expiresAt > 0
    /\ flow.deviceCode \in DeviceCodes

\* C17 as stated: with the answers pending, pending, token and an initial
\* interval of 5 seconds the token is stored and the intervals used are 5 and
\* 7.5 seconds.
C17_IntervalsFiveThenSevenAndHalf ==
  (Outcomes(flow) = <<"pending", "pending", "token">> /\ flow.trace[1].num = 5) =>
    /\ getAuthToken(store) = flow.got.token
    /\ IntervalsUsed(flow) = <<<<5, 1>>, <<15, 2>>>>

\* C17 as amended: with the answers pending, pending, token and an initial
\* interval of 5 seconds the token is stored, and the intervals slept before
\* the three polls are 5, 7.5 and 11.25 seconds, in that order.
C17_IntervalsOfThreePolls ==
  (Outcomes(flow) = <<"pending", "pending", "token">> /\ flow.trace[1].num = 5) =>
    /\ flow.st = "succeeded"
    /\ getAuthToken(store) = flow.got.token
    /\ IntervalsUsed(flow) = <<<<5, 1>>, <<15, 2>>, <<45, 4>>>>

\* Pending, pending, token "T2" from a grant with interval 5, all three polls
\* inside the window of 30 seconds.
C17_Witness ==
  /\ Outcomes(flow) = <<"pending", "pending", "token">>
  /\ flow.trace[1].num = 5
  /\ flow.expiresIn = 30
  /\ flow.polledAt < flow.expiresAt
  /\ getAuthToken(store) = "T2"

\* C18: with expiresIn 10 and interval 15 and every answer pending, the flow is
\* timed out after its one poll, no poll has returned a token and the persisted
\* session is as it was.
C18_IntervalLongerThanWindow ==
  (/\ flow.trace # <<>>
   /\ flow.expiresIn = 10
   /\ IntervalsUsed(flow)[1] = <<15, 1>>
   /\ \A i \in 1..Len(flow.trace) : flow.trace[i].out = "pending") =>
    /\ flow.st = "timedout"
    /\ flow.polls = 1
    /\ flow.writes = 0
    /\ AuthOf(store) = AuthOf(flow.before)

\* That grant, timed out after one pending poll, on a store without a session.
C18_Witness ==
  /\ flow.expiresIn = 10
  /\ Outcomes(flow) = <<"pending">>
  /\ IntervalsUsed(flow) = <<<<15, 1>>>>
  /\ flow.st = "timedout"
  /\ AuthOf(store) = AuthOf(EmptyStore)

\* C19: checkStatus() only reads: no request, no login flow, the store as it
\* was, and "logged in" reported exactly when isAuthenticated() is true.
C19_StatusIsReadOnly ==
  cmd = "status" =>
    /\ pc = "done"
    /\ obs.requests = 0
    /\ obs.logins = 0
    /\ flow = IdleFlow
    /\ rq = NoRequest
    /\ store = obs.store0
    /\ "success:logged-in" \in obs.msgs <=> isAuthenticated(store, now)
    /\ "info:not-logged-in" \in obs.msgs <=> ~isAuthenticated(store, now)

\* Status asked with a stored token that has passed its margin: not logged in.
C19_Witness ==
  /\ cmd = "status"
  /\ Truthy(getAuthToken(store))
  /\ "info:not-logged-in" \in obs.msgs
  /\ store = obs.store0

\* C20: an authorization-pending answer shows the user nothing: no error and no
\* warning, from the loop or from the get wrapper.
C20_PendingIsNeverShown ==
  (\E i \in 1..Len(flow.trace) : flow.trace[i].out = "pending") =>
    "error:api:pending" \notin flow.shown

\* C21: no token request is made with the device code at or after expiresAt
\* (the start of polling plus expiresIn), so no session comes from such a poll.
C21_NoPollAfterWindow ==
  flow.polls > 0 => flow.polledAt < flow.expiresAt

RECURSIVE Pow(_, _)
Pow(b, k) == IF k = 0 THEN 1 ELSE b * Pow(b, k - 1)

\* The interval in force after the k-th poll of the attempt: the one slept before
\* the next poll, or the current one when the k-th poll is the last so far.
NextInterval(f, k) ==
  IF k < Len(f.trace) THEN <<f.trace[k + 1].num, f.trace[k + 1].den>>
  ELSE <<f.num, f.den>>

\* C22: a pending answer makes the interval min(interval * 1.5, 30); no other
\* answer changes it; after k pending answers in a row from an initial interval
\* i <= 30 the next sleep is min(i * 1.5^k, 30).
C22_BackoffOnPendingOnly ==
  /\ \A k \in 1..Len(flow.trace) :
       LET n == flow.trace[k].num
           d == flow.trace[k].den
           nx == NextInterval(flow, k)
       IN IF flow.trace[k].out = "pending"
            THEN IF 3 * n > 30 * 2 * d THEN nx = <<30, 1>>
                 ELSE nx[1] * 2 * d = nx[2] * 3 * n
            ELSE nx = <<n, d>>
  /\ \A k \in 1..Len(flow.trace) :
       (/\ \A j \in 1..k : flow.trace[j].out = "pending"
        /\ flow.trace[1].num <= 30 * flow.trace[1].den) =>
         LET i == flow.trace[1].num
             nx == NextInterval(flow, k)
         IN IF i * Pow(3, k) > 30 * Pow(2, k) THEN nx[1] = 30 * nx[2]
            ELSE nx[1] * Pow(2, k) = nx[2] * i * Pow(3, k)

\* Three pending answers from an interval of 20 seconds: 20 * 1.5 is 30 exactly,
\* and the cap holds the interval at 30 from then on.
C22_Witness ==
  /\ Outcomes(flow) = <<"pending", "pending", "pending">>
  /\ IntervalsUsed(flow) = <<<<20, 1>>, <<60, 2>>, <<30, 1>>>>
  /\ flow.num = 30
  /\ flow.den = 1

\* C23: at most one progress timer runs at a time, none is left running when
\* polling has ended (token, timeout, failure), one runs while a non-silent flow
\* polls, and a silent flow never starts one.
C23_TimerStoppedOnEveryExit ==
  /\ flow.timers \in {0, 1}
  /\ flow.timers = 1 <=> flow.timerLive
  /\ flow.st \in {"succeeded", "timedout", "failed"} => flow.timers = 0
  /\ flow.silent => (flow.timers = 0 /\ "timer" \notin flow.shown)
  /\ (~flow.silent /\ flow.st = "sleep") => flow.timers = 1

\* A non-silent attempt that warned about a poll error, restarted its timer and
\* then got its token.
C23_Witness ==
  /\ ~flow.silent
  /\ "warn:poll-error" \in flow.shown
  /\ flow.st = "succeeded"
  /\ flow.timers = 0
  /\ ~flow.timerLive

\* C24: every login attempt ends as succeeded, failed or timed out, and no
\* iteration of the polling loop begins once now >= expiresAt.
C24_LoginTerminates ==
  /\ [](flow.st = "sleep" => now < flow.expiresAt)
  /\ <>(flow.st \in {"succeeded", "failed", "timedout"})

\* Six polls in a window of 30 seconds at an interval of 5: as many as the
\* window has room for.
C24_Witness ==
  /\ flow.st = "timedout"
  /\ flow.expiresIn = 30
  /\ flow.polls = 6
  /\ now >= flow.expiresAt

\* C25: when the login flow has reported success the store already holds the
\* new session: a read gives the token and the user of the answer, with the
\* expiry of the moment of the answer, and the request that waited for a
\* refresh carries the new token.
C25_WriteBeforeReturn ==
  /\ flow.st = "succeeded" =>
       /\ getAuthToken(store) = flow.got.token
       /\ getAuthUser(store) = flow.got.user
       /\ store.expiresAt = flow.polledAt + TokenLifetime
       /\ isAuthenticated(store, now)
       /\ flow.caller = "interceptor" => rq.header = flow.got.token
  /\ "success" \in flow.shown => flow.st = "succeeded"

\* A refresh that replaced the session of T1 and u1 by T2 without a user.
C25_Witness ==
  /\ flow.st = "succeeded"
  /\ flow.caller = "interceptor"
  /\ AuthOf(flow.before) = AuthOf(setAuthToken(EmptyStore, "T1", "u1", StartTime))
  /\ getAuthToken(store) = "T2"
  /\ getAuthUser(store) = NoUser

\* C26: the requests of the login flow itself (the grant request, the token
\* requests) never set off the interceptor's refresh, so no login flow starts
\* inside another; a request that waits for a refresh waits for one flow.
C26_NoNestedLogin ==
  /\ flow.nested = 0
  /\ rq.st = "refresh" => (flow.caller = "interceptor" /\ flow.grants = 1)

\* A refresh that has polled while the stored session still asks for a refresh.
C26_Witness ==
  /\ flow.caller = "interceptor"
  /\ flow.st = "sleep"
  /\ flow.polls >= 1
  /\ needsTokenRefresh(store, now)
  /\ isAuthenticated(store, now)

\* C27: from the moment a session is stored and for the 23 hours after it,
\* isAuthenticated() is true and needsTokenRefresh() is false, so a request made
\* then starts no refresh.
C27_FreshSessionNeedsNoRefresh ==
  /\ (/\ Truthy(getAuthToken(store))
      /\ UsableExpiry(store.expiresAt)
      /\ store.expiresAt - TokenLifetime <= now
      /\ now <= store.expiresAt - TokenLifetime + 23 * OneHour) =>
       /\ isAuthenticated(store, now)
       /\ ~needsTokenRefresh(store, now)
       /\ ~RefreshTriggered(ProjectsUrl, store, now)
  /\ flow.st = "succeeded" =>
       /\ store.expiresAt - TokenLifetime = now
       /\ ~needsTokenRefresh(store, now + 23 * OneHour)
       /\ isAuthenticated(store, now + 23 * OneHour)
  /\ (flow.caller = "interceptor" /\ flow.st = "grant") =>
       now > flow.before.expiresAt - TokenLifetime + 23 * OneHour

\* task delete: the fetch of the task refreshed the session, and the delete
\* request that follows goes out with the new token and without a refresh.
C27_Witness ==
  /\ runs = 1
  /\ pc = "reqDel"
  /\ rq.st = "wire"
  /\ ~rq.viaRefresh
  /\ obs.logins = 1
  /\ rq.header = "T2"

\* C28: a request that set off a refresh goes out only when the refresh has
\* ended, and every request carries the token stored at the moment it goes out:
\* the new one after a refresh that succeeded, the earlier one otherwise, none
\* when none is stored.
C28_RequestAfterRefreshCarriesStoredToken ==
  /\ rq.st = "wire" =>
       /\ rq.header = (IF getAuthToken(store) \in {NoToken, EmptyToken}
                         THEN NoToken ELSE getAuthToken(store))
       /\ rq.viaRefresh =>
            /\ flow.st \in {"succeeded", "failed", "timedout"}
            /\ rq.header = IF flow.st = "succeeded" THEN flow.got.token
                                                     ELSE getAuthToken(rq.before)
  /\ rq.st = "refresh" =>
       /\ flow.st \in {"grant", "clipboard", "browser", "sleep"}
       /\ rq.header = NoToken

\* A request on the wire with T2 after its refresh replaced T1.
C28_Witness ==
  /\ rq.st = "wire"
  /\ rq.viaRefresh
  /\ flow.st = "succeeded"
  /\ getAuthToken(rq.before) = "T1"
  /\ rq.header = "T2"

\* C29: setAuthToken and logout leave activeProject as it was, and
\* setActiveProject leaves token, expiresAt and user as they were.
C29_SessionAndProjectApart ==
  /\ cmd \in {"setAuthToken", "logout"} =>
       getActiveProject(store) = getActiveProject(obs.before)
  /\ cmd = "setActiveProject" =>
       /\ AuthOf(store) = AuthOf(obs.before)
       /\ getActiveProject(store) = obs.project

\* A logout from a session with an active project: the project is still there.
C29_Witness ==
  /\ cmd = "logout"
  /\ Truthy(getAuthToken(obs.before))
  /\ getActiveProject(obs.before) = "p1"
  /\ getActiveProject(store) = "p1"
  /\ getAuthToken(store) = NoToken

\* C30: no config subcommand prints the stored token, changes it, or removes
\* anything of the session.
C30_ConfigLeavesTokenAlone ==
  cmd \in {"configGet", "configList", "configSet", "configDelete"} =>
    /\ "print:token" \notin obs.msgs
    /\ getAuthToken(store) = getAuthToken(obs.store0)
    /\ cmd = "configDelete" => AuthOf(store) = AuthOf(obs.store0)

====
